---- MODULE Spec2Model ----
(***************************************************************************)
(* Model of the Boggle server: the per-session round state machine of      *)
(* boggle.py (advance, join, submit, leave, destroy, approve, the read     *)
(* path and the scoring task) and the scorer of boggle_utils.py.           *)
(*                                                                         *)
(* One session row is modelled together with the player, submission and    *)
(* word rows hanging off it.  Handlers that take the session row lock      *)
(* (SELECT ... FOR UPDATE) and commit once are single atomic actions; the  *)
(* scoring task commits twice and is split at its commits.                 *)
(*                                                                         *)
(* Spec is the server as a whole.  RaceSpec splits the advance handler at  *)
(* its row lock, RouteSpec puts the token check of each route in front of  *)
(* its handler, and ScoringSpec plays one round with three players and a   *)
(* wider choice of words, for the scorer and format_scores.                *)
(* UtilsSpec holds calls of the pure functions of boggle_utils.py (the     *)
(* path solver, the base score, the normaliser and roll) on bounded        *)
(* inputs; each call is a record that its action completes with a result.  *)
(*                                                                         *)
(* A request that is refused changes no row: its action is a stuttering    *)
(* step, and its status code is the value of an operator (AdvanceCode,     *)
(* SubmitCode, ...) in the state the request meets.                        *)
(*                                                                         *)
(* The handlers only ever compare utcnow() with round_start plus constant  *)
(* offsets, so times are measured from the instant of the latest advance   *)
(* request: that request reads the clock at 0.                             *)
(***************************************************************************)
EXTENDS Integers, Sequences, FiniteSets, Bags, TLC

VARIABLES
    session,      \* the boggle_session row, or None once deleted
    player_seq,   \* last value handed out by the player id sequence
    players,      \* ids of the player rows (all of this session)
    submissions,  \* bag of submission rows: [player_id, round_no]
    words,        \* word rows
    jobs,         \* bag of scoring task invocations, queued or running
    now,          \* wall clock, in seconds since the latest advance request
    claims,       \* task invocations that passed the claim step since the last advance
    requests,     \* bag of advance requests between their SELECT ... FOR UPDATE
                  \* and their commit (empty where a handler is one atomic action)
    call          \* calls of functions of boggle_utils on their own, each with
                  \* its arguments and, once it has returned, its result;
                  \* empty in the specifications of the server

vars == <<session, player_seq, players, submissions, words, jobs, now, claims,
          requests, call>>

----------------------------------------------------------------------------
(* Bounds of the model *)

MaxPlayers == 2
MaxRound == 2
MaxJobs == 2
MaxRequests == 2
MaxWordLen == 4
MaxDraws == 3

----------------------------------------------------------------------------
(* Program constants *)

ROUND_DURATION_MINUTES == 3
GRACE_PERIOD_SECONDS == 10
DEFAULT_COUNTDOWN_SECONDS == 15

\* the id of the modelled session row (first row of a truncated table)
SessionId == 1

\* nullable columns and optional values: None is <<>>, a value v is <<v>>
None == <<>>
Some(v) == <<v>>
Val(o) == o[1]

\* Status (IntEnum)
INITIAL == 0
PRE_START == 1
PLAYING == 2
SCORING == 3
SCORED == 4

\* the board of the tests (seed 5, International dice)
DEFAULT_TESTING_BOARD ==
    << <<"A", "Q", "L", "T">>,
       <<"O", "L", "E", "O">>,
       <<"F", "D", "G", "I">>,
       <<"L", "H", "I", "E">> >>

\* the dictionary named "testing", which the session of the model names: a
\* set of cleaned words
TestingDictionary == { <<"L", "E", "G">> }

----------------------------------------------------------------------------
(* boggle_utils: word normalisation *)

\* str.upper() on one character, for the characters the model uses
UpperChar(c) ==
    CASE c = "t" -> "T"
      [] c = "e" -> "E"
      [] c = "g" -> "G"
      [] c = "q" -> "Q"
      [] c = "u" -> "U"
      [] c = "e_acute" -> "E_ACUTE"
      [] OTHER -> c

\* unidecode.unidecode() on one character: diacritics are stripped
UnidecodeChar(c) ==
    CASE c = "e_acute" -> "e"
      [] c = "E_ACUTE" -> "E"
      [] OTHER -> c

upper(word) == [i \in 1..Len(word) |-> UpperChar(word[i])]

unidecode(word) == [i \in 1..Len(word) |-> UnidecodeChar(word[i])]

clean_word(word) == upper(unidecode(word))

\* str.replace('QU', 'Q'): left to right, non-overlapping
RECURSIVE ReplaceQU(_)
ReplaceQU(w) ==
    IF w = <<>> THEN <<>>
    ELSE IF Len(w) >= 2 /\ w[1] = "Q" /\ w[2] = "U"
         THEN <<"Q">> \o ReplaceQU(SubSeq(w, 3, Len(w)))
         ELSE <<w[1]>> \o ReplaceQU(Tail(w))

\* BoggleWord(word): the display form and the form compared and hashed
BoggleWord(word) ==
    [word |-> clean_word(word), qnormd |-> ReplaceQU(clean_word(word))]

\* BoggleWord.__eq__(self, other): self._qnormd == self._qnormd
BoggleWord_eq(self, other) == self.qnormd = self.qnormd

\* BoggleWord.__hash__(self): hash(self._qnormd), read as the string hashed
BoggleWord_hash(self) == self.qnormd

----------------------------------------------------------------------------
(* boggle_utils: path solver *)

RECURSIVE ConcatAll(_)
ConcatAll(ss) == IF ss = <<>> THEN <<>> ELSE Head(ss) \o ConcatAll(Tail(ss))

\* the eight moves in the order branch() builds them: dx outer, dy inner
Moves == << <<-1, -1>>, <<0, -1>>, <<1, -1>>,
            <<-1, 0>>,             <<1, 0>>,
            <<-1, 1>>,  <<0, 1>>,  <<1, 1>> >>

CellsOf(path) == {path[k] : k \in 1..Len(path)}

\* mutant: the moves along the diagonals are left out
branch_Orthogonal(board, node, next_ch) ==
    LET letter == node[Len(node)]
        cand == [k \in 1..Len(Moves) |->
                    <<letter[1] + Moves[k][1], letter[2] + Moves[k][2]>>]
        ok(m) == /\ 0 <= m[1] /\ m[1] < Len(board)
                 /\ 0 <= m[2] /\ m[2] < Len(board[1])
                 /\ m[1] = letter[1] \/ m[2] = letter[2]
                 /\ m \notin CellsOf(node)
                 /\ board[m[1] + 1][m[2] + 1] = next_ch
        kept == SelectSeq(cand, ok)
    IN [k \in 1..Len(kept) |-> Append(node, kept[k])]

\* Pathfinder.branch: a node is the path walked so far, its last cell the letter
branch(board, node, next_ch) ==
    LET letter == node[Len(node)]
        cand == [k \in 1..Len(Moves) |->
                    <<letter[1] + Moves[k][1], letter[2] + Moves[k][2]>>]
        ok(m) == /\ 0 <= m[1] /\ m[1] < Len(board)
                 /\ 0 <= m[2] /\ m[2] < Len(board[1])
                 /\ m \notin CellsOf(node)
                 /\ board[m[1] + 1][m[2] + 1] = next_ch
        kept == SelectSeq(cand, ok)
    IN [k \in 1..Len(kept) |-> Append(node, kept[k])]

RECURSIVE recurse(_, _, _)
recurse(board, letters, chars) ==
    IF chars = <<>> THEN letters
    ELSE \* values used more than once are bound by \in {..}, so that they
         \* are computed once: branch() of a letter, and the lists to join
         CHOOSE found \in
           {ConcatAll(below) : below \in
              {[k \in 1..Len(letters) |->
                  CHOOSE sub \in {recurse(board, nodes, Tail(chars)) :
                      nodes \in {branch(board, letters[k], Head(chars))}} : TRUE]}} : TRUE

\* Pathfinder.__call__: the paths of a word, in the order they are yielded
Pathfinder(board, word) ==
    IF Len(word) < 3 \/ Len(word) > 16 THEN <<>>
    ELSE LET rows == Len(board)
             cols == Len(board[1])
             cells == [k \in 1..(rows * cols) |-> <<(k - 1) \div cols, (k - 1) % cols>>]
             start(c) == board[c[1] + 1][c[2] + 1] = word[1]
             initial_points(kept) == [k \in 1..Len(kept) |-> <<kept[k]>>]
         IN CHOOSE found \in {recurse(board, initial_points(kept), chars) :
                                kept \in {SelectSeq(cells, start)},
                                chars \in {Tail(word)}} : TRUE

----------------------------------------------------------------------------
(* boggle_utils: scorer *)

\* STANDARD_SCORING
lower_lim == 4
lower_lim_score == 1
upper_lim_score == 11
scores == <<2, 3, 5>>

score_for_len(length) ==
    IF length <= lower_lim THEN lower_lim_score
    ELSE IF length - lower_lim <= Len(scores) THEN scores[length - lower_lim]
    ELSE upper_lim_score

\* mutant: the score goes by the number of cells of the path
base_score_PathLen(word, board) ==
    CHOOSE found \in
      {IF w_paths # <<>>
       THEN [score |-> score_for_len(Len(Head(w_paths))), path |-> Some(Head(w_paths))]
       ELSE [score |-> 0, path |-> None] :
          w_paths \in {Pathfinder(board, ReplaceQU(word))}} : TRUE

\* BaseScores.score: (score, path) of a cleaned word
base_score(word, board) ==
    CHOOSE found \in
      {IF w_paths # <<>>
       THEN [score |-> score_for_len(Len(word)), path |-> Some(Head(w_paths))]
       ELSE [score |-> 0, path |-> None] :
          w_paths \in {Pathfinder(board, ReplaceQU(word))}} : TRUE

\* word lists a player submits
WordListInputs == { <<>>, << <<"T", "E", "G">> >> }

\* word lists for the rounds in which the scoring itself is examined: words
\* that share a compared form (QLGE, QULGE), words of the same and of
\* different lengths, a word the dictionary lacks (ALGEI) and a word that
\* is not on the board (TETEG), and a list as typed: lower case, an accent,
\* an empty string and two spellings of one compared form
ScoringWordLists ==
    { << <<"T", "E", "G">> >>,
      << <<"q", "L", "g", "e">>, <<"t", "e_acute", "g">>, <<>>,
         <<"Q", "U", "L", "G", "E">>, <<"T", "E", "G">> >>,
      << <<"Q", "L", "G", "E">> >>,
      << <<"Q", "U", "L", "G", "E">>, <<"T", "E", "G">> >>,
      << <<"T", "L", "E", "G", "I">> >>,
      << <<"A", "L", "G", "E", "I">>, <<"T", "E", "G">> >>,
      << <<"T", "E", "T", "E", "G">> >> }

ScoringDictionary ==
    { <<"T", "E", "G">>, <<"Q", "L", "G", "E">>, <<"Q", "U", "L", "G", "E">>,
      <<"T", "L", "E", "G", "I">>, <<"T", "E", "T", "E", "G">> }

\* BaseScores.score of each word a request can carry, on the board of the
\* rounds: the solver's answer for a word does not change, it is kept
known_scores ==
    [word \in UNION {{clean_word(ws[k]) : k \in 1..Len(ws)} :
                        ws \in WordListInputs \cup ScoringWordLists}
        |-> base_score(word, DEFAULT_TESTING_BOARD)]

score(word, board) ==
    IF board = DEFAULT_TESTING_BOARD /\ word \in DOMAIN known_scores
    THEN known_scores[word]
    ELSE base_score(word, board)

\* mutant: words are told apart by their display form
score_players_DisplayForm(loaded, board, dictionary) ==
    LET blacklisted(w) ==
            \E v \in loaded : v # w /\ BoggleWord(v.word).word = BoggleWord(w.word).word
        scored(w) ==
            LET cleaned == BoggleWord(w.word).word
            IN CHOOSE row \in
                 {[w EXCEPT !.score = Some(sp.score),
                            !.duplicate = Some(blacklisted(w)),
                            !.dictionary_valid =
                                Some(dictionary = None \/ cleaned \in Val(dictionary)),
                            !.path_array = sp.path] :
                     sp \in {score(cleaned, board)}} : TRUE
    IN {scored(w) : w \in loaded}

\* score_players: the loaded word rows with their scoring columns filled in
score_players(loaded, board, dictionary) ==
    LET blacklisted(w) ==
            \E v \in loaded : v # w /\ BoggleWord(v.word).qnormd = BoggleWord(w.word).qnormd
        scored(w) ==
            LET cleaned == BoggleWord(w.word).word
            IN CHOOSE row \in
                 {[w EXCEPT !.score = Some(sp.score),
                            !.duplicate = Some(blacklisted(w)),
                            !.dictionary_valid =
                                Some(dictionary = None \/ cleaned \in Val(dictionary)),
                            !.path_array = sp.path] :
                     sp \in {score(cleaned, board)}} : TRUE
    IN {scored(w) : w \in loaded}

----------------------------------------------------------------------------
(* boggle: rows *)

\* datetime arithmetic, in seconds
round_end_of(round_start) == round_start + ROUND_DURATION_MINUTES * 60

\* the seed of a round under TESTING, and the board roll() returns for it
TESTING_SEED == 5
roll(round_seed) == DEFAULT_TESTING_BOARD

\* a word row as Submit inserts it: the scoring columns are null
WordRow(player_id, round_no, word) ==
    [player_id |-> player_id, round_no |-> round_no, word |-> word,
     score |-> None, duplicate |-> None, dictionary_valid |-> None,
     path_array |-> None]

\* ON DELETE CASCADE from the player rows in gone
CascadePlayers(gone) ==
    /\ players' = players \ gone
    /\ submissions' = [s \in {x \in DOMAIN submissions : x.player_id \notin gone}
                          |-> submissions[s]]
    /\ words' = {w \in words : w.player_id \notin gone}

\* BoggleSession._submissions_pending, negated
all_submitted ==
    ~ \E p \in players :
        ~ BagIn([player_id |-> p, round_no |-> Val(session).round_no], submissions)

\* retrieve_submitted_words(session_id, round_no) with the plain Word model
retrieve_submitted_words(round_no) ==
    {w \in words : w.player_id \in players /\ w.round_no = round_no}

----------------------------------------------------------------------------
(* Inputs of the requests *)

\* bodies of the advance request: no body, or {"until_start": 0}
UntilStartInputs == {None, Some(0)}

\* word lists a manager approves
ApproveInputs == { << <<"t", "e", "g">> >> }

\* offsets from round_start the clock is observed at
TickOffsets == {0,
                ROUND_DURATION_MINUTES * 60,
                ROUND_DURATION_MINUTES * 60 + GRACE_PERIOD_SECONDS,
                ROUND_DURATION_MINUTES * 60 + GRACE_PERIOD_SECONDS + 1}

----------------------------------------------------------------------------
(* Initial state: a freshly spawned session that names the testing dictionary *)

Init ==
    /\ session = Some([round_no |-> 0, round_start |-> None, round_scored |-> None,
                       dictionary |-> Some("testing")])
    /\ player_seq = 0
    /\ players = {}
    /\ submissions = EmptyBag
    /\ words = {}
    /\ jobs = EmptyBag
    /\ now = 0
    /\ claims = 0
    /\ requests = EmptyBag
    /\ call = <<>>

----------------------------------------------------------------------------
(* manage_session, POST: advance the round *)

\* mutant: the check for players is missing
AdvanceCode_NoPlayerCheck ==
    IF session = None THEN 410
    ELSE IF Val(session).round_scored = Some(FALSE) THEN 409
    ELSE 200

\* the status code of the response
AdvanceCode ==
    IF session = None THEN 410
    ELSE IF players = {} THEN 409
    ELSE IF Val(session).round_scored = Some(FALSE) THEN 409
    ELSE 200

Advance(json) ==
    IF AdvanceCode = 200
    THEN LET until_start == IF json = None THEN DEFAULT_COUNTDOWN_SECONDS
                            ELSE Val(json)
             utcnow == 0
         IN /\ Val(session).round_no < MaxRound
            /\ session' = Some([Val(session) EXCEPT
                                  !.round_scored = None,
                                  !.round_start = Some(utcnow + until_start),
                                  !.round_no = @ + 1])
            /\ claims' = 0
            /\ now' = 0
            /\ UNCHANGED <<player_seq, players, submissions, words, jobs, requests, call>>
    ELSE UNCHANGED vars

(* manage_session, DELETE: destroy the session; the delete cascades *)

DestroyCode == 204

Destroy ==
    /\ session' = None
    /\ CascadePlayers(players)
    /\ UNCHANGED <<player_seq, jobs, now, claims, requests, call>>

(* session_join *)

\* sess is None once the session is gone: sess.players raises, the request fails
JoinCode == IF session = None THEN 500 ELSE 201

Join ==
    IF JoinCode = 201
    THEN /\ player_seq < MaxPlayers
         /\ player_seq' = player_seq + 1
         /\ players' = players \cup {player_seq + 1}
         /\ UNCHANGED <<session, submissions, words, jobs, now, claims, requests, call>>
    ELSE UNCHANGED vars

(* play, PUT: submit the words of a round *)

\* mutant: the set tells the words apart by their display form
RECURSIVE SubmittedWords_ByDisplay(_, _)
SubmittedWords_ByDisplay(ws, kept) ==
    IF ws = <<>> THEN kept
    ELSE LET bw == BoggleWord(Head(ws))
         IN IF Head(ws) = <<>>
            THEN SubmittedWords_ByDisplay(Tail(ws), kept)
            ELSE SubmittedWords_ByDisplay(Tail(ws), kept \cup {bw})

\* set(BoggleWord(w) for w in words if w): the first spelling of each compared form is kept
RECURSIVE SubmittedWords(_, _)
SubmittedWords(ws, kept) ==
    IF ws = <<>> THEN kept
    ELSE LET bw == BoggleWord(Head(ws))
         IN IF Head(ws) = <<>> \/ \E k \in kept : k.qnormd = bw.qnormd
            THEN SubmittedWords(Tail(ws), kept)
            ELSE SubmittedWords(Tail(ws), kept \cup {bw})

\* mutant: the IntegrityError of the unique constraint is not raised
SubmitCode_NoUnique(p, round_no_supplied) ==
    IF session = None THEN 410
    ELSE IF p \notin players THEN 410
    ELSE IF Val(session).round_start = None THEN 409
    ELSE LET round_no == Val(session).round_no
             deadline == round_end_of(Val(Val(session).round_start))
                           + GRACE_PERIOD_SECONDS
         IN IF Val(session).round_scored # None \/ now > deadline THEN 409
            ELSE IF round_no # round_no_supplied THEN 409
            ELSE 201

\* mutant: the round number of the request is not compared
SubmitCode_NoRoundCheck(p, round_no_supplied) ==
    IF session = None THEN 410
    ELSE IF p \notin players THEN 410
    ELSE IF Val(session).round_start = None THEN 409
    ELSE LET round_no == Val(session).round_no
             deadline == round_end_of(Val(Val(session).round_start))
                           + GRACE_PERIOD_SECONDS
         IN IF Val(session).round_scored # None \/ now > deadline THEN 409
            ELSE IF BagIn([player_id |-> p, round_no |-> round_no], submissions)
            THEN 409
            ELSE 201

SubmitCode(p, round_no_supplied) ==
    IF session = None THEN 410
    ELSE IF p \notin players THEN 410
    ELSE IF Val(session).round_start = None THEN 409
    ELSE LET round_no == Val(session).round_no
             deadline == round_end_of(Val(Val(session).round_start))
                           + GRACE_PERIOD_SECONDS
         IN IF Val(session).round_scored # None \/ now > deadline THEN 409
            ELSE IF round_no # round_no_supplied THEN 409
            ELSE IF BagIn([player_id |-> p, round_no |-> round_no], submissions)
            THEN \* UniqueConstraint(player_id, round_no): IntegrityError, rollback
                 409
            ELSE 201

Submit(p, round_no_supplied, ws) ==
    IF SubmitCode(p, round_no_supplied) = 201
    THEN LET round_no == Val(session).round_no
         IN /\ submissions' = submissions (+)
                                SetToBag({[player_id |-> p, round_no |-> round_no]})
            /\ words' = words \cup
                          {WordRow(p, round_no, upper(bw.word)) :
                              bw \in SubmittedWords(ws, {})}
            /\ UNCHANGED <<session, player_seq, players, jobs, now, claims, requests, call>>
    ELSE UNCHANGED vars

(* play, DELETE: leave the session *)

\* mutant: leaving is allowed while the round is being scored
LeaveCode_MidScoring(p) ==
    IF session = None THEN 410
    ELSE 204

LeaveCode(p) ==
    IF session = None THEN 410
    ELSE IF Val(session).round_scored = Some(FALSE) THEN 409
    ELSE 204

Leave(p) ==
    IF LeaveCode(p) = 204
    THEN \* Player.query.filter(Player.id == session_id).delete()
         /\ CascadePlayers(players \cap {SessionId})
         /\ UNCHANGED <<session, player_seq, jobs, now, claims, requests, call>>
    ELSE UNCHANGED vars

(* session_state: the read path of the management and play URLs *)

ReadResp(code, status, board, has_scores, dispatch) ==
    [code |-> code, status |-> status, board |-> board, scores |-> has_scores,
     dispatch |-> dispatch]

\* mutant: the read queues the task only once every player has submitted
ReadResponse_NoGraceDispatch ==
    IF session = None THEN ReadResp(410, -1, FALSE, FALSE, FALSE)
    ELSE LET sess == Val(session)
         IN IF sess.round_start = None
            THEN ReadResp(200, INITIAL, FALSE, FALSE, FALSE)
            ELSE LET round_start == Val(sess.round_start)
                     round_end == round_end_of(round_start)
                 IN IF now < round_start
                    THEN ReadResp(200, PRE_START, FALSE, FALSE, FALSE)
                    ELSE IF now < round_end /\ ~all_submitted
                    THEN ReadResp(200, PLAYING, TRUE, FALSE, FALSE)
                    ELSE ReadResp(200,
                                  IF sess.round_scored = Some(TRUE)
                                  THEN SCORED ELSE SCORING,
                                  TRUE,
                                  sess.round_scored = Some(TRUE),
                                  all_submitted /\ sess.round_scored = None)

\* mutant: PLAYING is decided from the clock alone
ReadResponse_ClockOnly ==
    IF session = None THEN ReadResp(410, -1, FALSE, FALSE, FALSE)
    ELSE LET sess == Val(session)
         IN IF sess.round_start = None
            THEN ReadResp(200, INITIAL, FALSE, FALSE, FALSE)
            ELSE LET round_start == Val(sess.round_start)
                     round_end == round_end_of(round_start)
                 IN IF now < round_start
                    THEN ReadResp(200, PRE_START, FALSE, FALSE, FALSE)
                    ELSE IF now < round_end
                    THEN ReadResp(200, PLAYING, TRUE, FALSE, FALSE)
                    ELSE ReadResp(200,
                                  IF sess.round_scored = Some(TRUE)
                                  THEN SCORED ELSE SCORING,
                                  TRUE,
                                  sess.round_scored = Some(TRUE),
                                  /\ (all_submitted \/
                                      now > round_end + GRACE_PERIOD_SECONDS)
                                  /\ sess.round_scored = None)

\* mutant: a read of a round that was never started goes on to the dispatch
ReadResponse_InitialDispatch ==
    IF session = None THEN ReadResp(410, -1, FALSE, FALSE, FALSE)
    ELSE LET sess == Val(session)
         IN IF sess.round_start = None
            THEN ReadResp(200, INITIAL, FALSE, FALSE,
                          all_submitted /\ sess.round_scored = None)
            ELSE LET round_start == Val(sess.round_start)
                     round_end == round_end_of(round_start)
                 IN IF now < round_start
                    THEN ReadResp(200, PRE_START, FALSE, FALSE, FALSE)
                    ELSE IF now < round_end /\ ~all_submitted
                    THEN ReadResp(200, PLAYING, TRUE, FALSE, FALSE)
                    ELSE ReadResp(200,
                                  IF sess.round_scored = Some(TRUE)
                                  THEN SCORED ELSE SCORING,
                                  TRUE,
                                  sess.round_scored = Some(TRUE),
                                  /\ (all_submitted \/
                                      now > round_end + GRACE_PERIOD_SECONDS)
                                  /\ sess.round_scored = None)

\* mutant: the board is rolled and returned before the start of the round
ReadResponse_BoardEarly ==
    IF session = None THEN ReadResp(410, -1, FALSE, FALSE, FALSE)
    ELSE LET sess == Val(session)
         IN IF sess.round_start = None
            THEN ReadResp(200, INITIAL, FALSE, FALSE, FALSE)
            ELSE LET round_start == Val(sess.round_start)
                     round_end == round_end_of(round_start)
                 IN IF now < round_start
                    THEN ReadResp(200, PRE_START, TRUE, FALSE, FALSE)
                    ELSE IF now < round_end /\ ~all_submitted
                    THEN ReadResp(200, PLAYING, TRUE, FALSE, FALSE)
                    ELSE ReadResp(200,
                                  IF sess.round_scored = Some(TRUE)
                                  THEN SCORED ELSE SCORING,
                                  TRUE,
                                  sess.round_scored = Some(TRUE),
                                  /\ (all_submitted \/
                                      now > round_end + GRACE_PERIOD_SECONDS)
                                  /\ sess.round_scored = None)

\* the response, and whether the read queues a scoring task
ReadResponse ==
    IF session = None THEN ReadResp(410, -1, FALSE, FALSE, FALSE)
    ELSE LET sess == Val(session)
         IN IF sess.round_start = None
            THEN ReadResp(200, INITIAL, FALSE, FALSE, FALSE)
            ELSE LET round_start == Val(sess.round_start)
                     round_end == round_end_of(round_start)
                 IN IF now < round_start
                    THEN ReadResp(200, PRE_START, FALSE, FALSE, FALSE)
                    ELSE IF now < round_end /\ ~all_submitted
                    THEN ReadResp(200, PLAYING, TRUE, FALSE, FALSE)
                    ELSE ReadResp(200,
                                  IF sess.round_scored = Some(TRUE)
                                  THEN SCORED ELSE SCORING,
                                  TRUE,
                                  sess.round_scored = Some(TRUE),
                                  /\ (all_submitted \/
                                      now > round_end + GRACE_PERIOD_SECONDS)
                                  /\ sess.round_scored = None)

Job(pc, round_no, by_player) == [pc |-> pc, round_no |-> round_no, by_player |-> by_player]

Read ==
    IF ReadResponse.dispatch
    THEN \* trigger_scoring.delay(session_id, round_no, round_seed, dice_config)
         /\ BagCardinality(jobs) < MaxJobs
         /\ jobs' = jobs (+) SetToBag({Job("queued", Val(session).round_no, {})})
         /\ UNCHANGED <<session, player_seq, players, submissions, words, now, claims, requests, call>>
    ELSE UNCHANGED vars

(* approve_word *)

\* mutant: only a round that is being scored refuses an approval
ApproveCode_NotFalse ==
    IF session = None THEN 410
    ELSE IF Val(session).round_scored = Some(FALSE) THEN 409
    ELSE 200

ApproveCode ==
    IF session = None THEN 410
    ELSE IF Val(session).round_scored # Some(TRUE) THEN 409
    ELSE 200

Approve(ws) ==
    IF ApproveCode = 200
    THEN LET uppered == {upper(ws[k]) : k \in 1..Len(ws)}
             hit(w) == /\ w.word \in uppered
                       /\ w.round_no = Val(session).round_no
                       /\ w.player_id \in players
         IN /\ words' = {IF hit(w) THEN [w EXCEPT !.dictionary_valid = Some(TRUE)]
                         ELSE w : w \in words}
            /\ UNCHANGED <<session, player_seq, players, submissions, jobs, now, claims, requests, call>>
    ELSE UNCHANGED vars

(* emit_scores without the SQL views: format_scores *)

\* mutant: the stored score is projected whatever the dictionary said
score_json_Raw(w) ==
    [score |-> Val(w.score),
     word |-> w.word,
     in_grid |-> w.path_array # None,
     duplicate |-> w.duplicate,
     dictionary_valid |-> w.dictionary_valid,
     path |-> w.path_array]

\* AbstractWord.score_json, of a scored word row
score_json(w) ==
    [score |-> IF w.dictionary_valid = Some(TRUE) THEN Val(w.score) ELSE 0,
     word |-> w.word,
     in_grid |-> w.path_array # None,
     duplicate |-> w.duplicate,
     dictionary_valid |-> w.dictionary_valid,
     path |-> w.path_array]

\* max(len(w.word) for w in words if w.score and w.dictionary_valid, default=0)
max_len(ws) ==
    LET lens == {Len(w.word) :
                   w \in {x \in ws : /\ x.score \notin {None, Some(0)}
                                     /\ x.dictionary_valid = Some(TRUE)}}
    IN IF lens = {} THEN 0 ELSE CHOOSE m \in lens : \A l \in lens : l <= m

\* mutant: a player who equals the longest length so far is passed over
RECURSIVE longest_scan_NoTie(_, _, _)
longest_scan_NoTie(by_player, longest, longest_unique) ==
    IF by_player = <<>>
    THEN [longest |-> longest, longest_unique |-> longest_unique]
    ELSE IF max_len(Head(by_player).words) > longest
    THEN longest_scan_NoTie(Tail(by_player), max_len(Head(by_player).words), TRUE)
    ELSE longest_scan_NoTie(Tail(by_player), longest, longest_unique)

\* the first loop of format_scores, over by_player.values() in their order
RECURSIVE longest_scan(_, _, _)
longest_scan(by_player, longest, longest_unique) ==
    IF by_player = <<>>
    THEN [longest |-> longest, longest_unique |-> longest_unique]
    ELSE IF max_len(Head(by_player).words) > longest
    THEN longest_scan(Tail(by_player), max_len(Head(by_player).words), TRUE)
    ELSE IF max_len(Head(by_player).words) = longest
    THEN longest_scan(Tail(by_player), longest, FALSE)
    ELSE longest_scan(Tail(by_player), longest, longest_unique)

\* by_player: one entry per player with words, in the order of the query;
\* the sorted word list of a player is held as the set of its entries
format_scores(by_player, use_mild_scoring) ==
    LET found == longest_scan(by_player, 0, TRUE)
        effective(w) ==
            LET zeroed == IF ~use_mild_scoring /\ w.duplicate = Some(TRUE)
                          THEN 0 ELSE score_json(w).score
                bonus == found.longest_unique /\ Len(w.word) = found.longest
            IN [score |-> IF bonus THEN zeroed * 2 ELSE zeroed,
                word |-> w.word,
                in_grid |-> score_json(w).in_grid,
                duplicate |-> w.duplicate,
                dictionary_valid |-> w.dictionary_valid,
                path |-> w.path_array,
                longest_bonus |-> bonus]
    IN [k \in 1..Len(by_player) |->
          [player |-> by_player[k].player,
           words |-> {effective(w) : w \in by_player[k].words}]]

\* retrieve_submitted_words grouped by player, the players in the given order
by_player_in(order, round_no) ==
    [k \in 1..Len(order) |->
       [player |-> order[k],
        words |-> {w \in retrieve_submitted_words(round_no) : w.player_id = order[k]}]]

\* the orders in which the query can return the players who have words
QueryOrders(round_no) ==
    LET with_words == {w.player_id : w \in retrieve_submitted_words(round_no)}
    IN {order \in [1..Cardinality(with_words) -> with_words] :
          \A a, b \in 1..Cardinality(with_words) : a # b => order[a] # order[b]}

(* trigger_scoring: the scoring task, split at its commits *)

\* trigger_scoring.dictionaries: the dictionaries the worker has loaded, by name
dictionaries == [name \in {"testing", "scoring"} |->
                    IF name = "testing" THEN TestingDictionary ELSE ScoringDictionary]

\* mutant: a session without a dictionary is scored against an empty one
load_dictionary_Empty(name) ==
    IF name # None /\ Val(name) \in DOMAIN dictionaries
    THEN Some(dictionaries[Val(name)])
    ELSE Some({})

\* the dictionary handed to score_players: None if the session names none,
\* or if the name is not among the loaded ones (KeyError, logged)
load_dictionary(name) ==
    IF name # None /\ Val(name) \in DOMAIN dictionaries
    THEN Some(dictionaries[Val(name)])
    ELSE None

\* the task returns, or its exception handler rolls back: the invocation is over
Exit(j) == jobs' = jobs (-) SetToBag({j})

\* mutant: the task does not look at round_scored before it marks the round
WorkerClaim_NoCheck(j) ==
    /\ j.pc = "queued"
    /\ UNCHANGED <<player_seq, players, submissions, words, now, requests, call>>
    /\ IF session = None
       THEN /\ Exit(j)
            /\ UNCHANGED <<session, claims>>
       ELSE /\ session' = Some([Val(session) EXCEPT !.round_scored = Some(FALSE)])
            /\ jobs' = (jobs (-) SetToBag({j}))
                         (+) SetToBag({Job("claimed", j.round_no, {})})
            /\ claims' = claims + 1

\* mutant: the task tests "if sess.round_scored" and so passes a round in progress
WorkerClaim_TruthTest(j) ==
    /\ j.pc = "queued"
    /\ UNCHANGED <<player_seq, players, submissions, words, now, requests, call>>
    /\ IF session = None
       THEN /\ Exit(j)
            /\ UNCHANGED <<session, claims>>
       ELSE IF Val(session).round_scored = Some(TRUE)
       THEN /\ Exit(j)
            /\ UNCHANGED <<session, claims>>
       ELSE /\ session' = Some([Val(session) EXCEPT !.round_scored = Some(FALSE)])
            /\ jobs' = (jobs (-) SetToBag({j}))
                         (+) SetToBag({Job("claimed", j.round_no, {})})
            /\ claims' = claims + 1

\* for_update, the check of round_scored, the "in progress" marker and its commit
WorkerClaim(j) ==
    /\ j.pc = "queued"
    /\ UNCHANGED <<player_seq, players, submissions, words, now, requests, call>>
    /\ IF session = None
       THEN \* .one() raises NoResultFound
            /\ Exit(j)
            /\ UNCHANGED <<session, claims>>
       ELSE IF Val(session).round_scored # None
       THEN \* already underway or finished: commit and return
            /\ Exit(j)
            /\ UNCHANGED <<session, claims>>
       ELSE /\ session' = Some([Val(session) EXCEPT !.round_scored = Some(FALSE)])
            /\ jobs' = (jobs (-) SetToBag({j}))
                         (+) SetToBag({Job("claimed", j.round_no, {})})
            /\ claims' = claims + 1

\* retrieve_submitted_words, then either the no-words commit or score_players
WorkerScore(j) ==
    /\ j.pc = "claimed"
    /\ UNCHANGED <<player_seq, players, submissions, words, now, claims, requests, call>>
    /\ LET by_player == retrieve_submitted_words(j.round_no)
       IN IF by_player = {}
          THEN /\ Exit(j)
               /\ IF session = None
                  THEN \* the UPDATE of the session row matches no row
                       UNCHANGED session
                  ELSE session' = Some([Val(session) EXCEPT
                                          !.round_scored = Some(TRUE)])
          ELSE /\ UNCHANGED session
               /\ jobs' = (jobs (-) SetToBag({j}))
                            (+) SetToBag({Job("scored", j.round_no,
                                   score_players(by_player, roll(TESTING_SEED),
                                                 load_dictionary(Val(session).dictionary)))})

\* mutant: the task saves the scored rows without looking for the session
WorkerFinish_NoGoneCheck(j) ==
    /\ j.pc = "scored"
    /\ Exit(j)
    /\ UNCHANGED <<player_seq, players, submissions, now, claims, requests, call>>
    /\ words' = words \cup j.by_player
    /\ IF session = None
       THEN UNCHANGED session
       ELSE session' = Some([Val(session) EXCEPT !.round_scored = Some(TRUE)])

\* for_update again, bulk_save_objects, round_scored = True, commit
WorkerFinish(j) ==
    /\ j.pc = "scored"
    /\ Exit(j)
    /\ UNCHANGED <<player_seq, players, submissions, now, claims, requests, call>>
    /\ IF session = None
       THEN \* abort(410) inside the task, caught by its handler
            UNCHANGED <<session, words>>
       ELSE LET key(w) == <<w.player_id, w.round_no, w.word>>
                saved(w) == CHOOSE v \in j.by_player : key(v) = key(w)
            IN /\ words' = {IF \E v \in j.by_player : key(v) = key(w)
                            THEN saved(w) ELSE w : w \in words}
               /\ session' = Some([Val(session) EXCEPT !.round_scored = Some(TRUE)])

\* an exception between the two commits: rollback, nothing is written
WorkerFail(j) ==
    /\ j.pc \in {"claimed", "scored"}
    /\ Exit(j)
    /\ UNCHANGED <<session, player_seq, players, submissions, words, now, claims, requests, call>>

(* the clock moves on to a later instant of the round *)

Tick(o) ==
    /\ session # None
    /\ Val(session).round_start # None
    /\ Val(Val(session).round_start) + o > now
    /\ now' = Val(Val(session).round_start) + o
    /\ UNCHANGED <<session, player_seq, players, submissions, words, jobs, claims, requests, call>>

----------------------------------------------------------------------------

\* player ids whose token a client can hold
Minted == 1..player_seq

Next ==
    \/ \E json \in UntilStartInputs : Advance(json)
    \/ Destroy
    \/ Join
    \/ \E p \in Minted, r \in 0..MaxRound, ws \in WordListInputs : Submit(p, r, ws)
    \/ \E p \in Minted : Leave(p)
    \/ Read
    \/ \E ws \in ApproveInputs : Approve(ws)
    \/ \E j \in BagToSet(jobs) : WorkerClaim(j)
    \/ \E j \in BagToSet(jobs) : WorkerScore(j)
    \/ \E j \in BagToSet(jobs) : WorkerFinish(j)
    \/ \E j \in BagToSet(jobs) : WorkerFail(j)
    \/ \E o \in TickOffsets : Tick(o)

Spec == Init /\ [][Next]_vars

\* Reads keep arriving, the worker pool takes up every queued invocation and
\* lets it run on, and the clock moves on.
LiveSpec ==
    /\ Spec
    /\ WF_vars(Read)
    /\ WF_vars(\E j \in BagToSet(jobs) : WorkerClaim(j))
    /\ WF_vars(\E j \in BagToSet(jobs) : WorkerScore(j))
    /\ WF_vars(\E j \in BagToSet(jobs) : WorkerFinish(j))
    /\ WF_vars(\E o \in TickOffsets : Tick(o))

----------------------------------------------------------------------------
(* manage_session, POST, with its row lock spelled out: the request selects *)
(* the session row FOR UPDATE, works on the row it read and commits.  The   *)
(* other handlers stay atomic; those that take the row lock, and the DELETE *)
(* of the row, wait while an advance request holds it.                      *)

LockHeld == requests # EmptyBag

Request(json, sess, has_players) ==
    [json |-> json, sess |-> sess, has_players |-> has_players]

\* mutant: a plain SELECT, which does not wait for the holder of the row lock
AdvanceSelect_NoLock(json) ==
    IF session = None THEN UNCHANGED vars
    ELSE /\ BagCardinality(requests) < MaxRequests
         /\ Val(session).round_no < MaxRound
         /\ requests' = requests (+) SetToBag({Request(json, session, players # {})})
         /\ UNCHANGED <<session, player_seq, players, submissions, words, jobs, now,
                        claims, call>>

\* BoggleSession.for_update and the query for players that follows it
AdvanceSelect(json) ==
    IF session = None
    THEN \* one_or_none() finds no row: 410, no lock is taken
         UNCHANGED vars
    ELSE /\ ~LockHeld
         /\ BagCardinality(requests) < MaxRequests
         /\ Val(session).round_no < MaxRound
         /\ requests' = requests (+) SetToBag({Request(json, session, players # {})})
         /\ UNCHANGED <<session, player_seq, players, submissions, words, jobs, now,
                        claims, call>>

\* the status code of an advance request that holds the row r.sess
RequestCode(r) ==
    IF ~r.has_players THEN 409
    ELSE IF Val(r.sess).round_scored = Some(FALSE) THEN 409
    ELSE 200

\* the checks, the assignments to the row object and the commit (or the abort)
AdvanceCommit(r) ==
    /\ requests' = requests (-) SetToBag({r})
    /\ UNCHANGED <<player_seq, players, submissions, words, jobs, call>>
    /\ IF RequestCode(r) = 200 /\ session # None
       THEN LET until_start == IF r.json = None THEN DEFAULT_COUNTDOWN_SECONDS
                               ELSE Val(r.json)
                utcnow == 0
            IN \* UPDATE of the three columns, computed from the row as read
               /\ session' = Some([Val(session) EXCEPT
                                     !.round_scored = None,
                                     !.round_start = Some(utcnow + until_start),
                                     !.round_no = Val(r.sess).round_no + 1])
               /\ claims' = 0
               /\ now' = 0
       ELSE UNCHANGED <<session, now, claims>>

RaceNext ==
    \/ \E json \in UntilStartInputs : AdvanceSelect(json)
    \/ \E r \in BagToSet(requests) : AdvanceCommit(r)
    \/ ~LockHeld /\ Destroy
    \/ Join
    \/ ~LockHeld /\ \E p \in Minted, r \in 0..MaxRound, ws \in WordListInputs :
                        Submit(p, r, ws)
    \/ ~LockHeld /\ \E p \in Minted : Leave(p)
    \/ Read
    \/ ~LockHeld /\ \E j \in BagToSet(jobs) : WorkerClaim(j)
    \/ \E j \in BagToSet(jobs) :
          \* the UPDATE of the no-words path waits for the row lock as well
          /\ ~LockHeld \/ retrieve_submitted_words(j.round_no) # {}
          /\ WorkerScore(j)
    \/ ~LockHeld /\ \E j \in BagToSet(jobs) : WorkerFinish(j)
    \/ \E j \in BagToSet(jobs) : WorkerFail(j)
    \/ \E o \in TickOffsets : Tick(o)

RaceSpec == Init /\ [][RaceNext]_vars

----------------------------------------------------------------------------
(* Tokens: every route checks the token of its URL before anything else *)

Digits == <<"0", "1", "2", "3", "4", "5", "6", "7", "8", "9">>

\* str() of a non-negative integer, as a sequence of characters
RECURSIVE str(_)
str(n) ==
    IF n < 10 THEN <<Digits[n + 1]>>
    ELSE str(n \div 10) \o <<Digits[(n % 10) + 1]>>

\* HMAC-SHA1 under a key made of the salt and the server key, over
\* ''.join(str(d) for d in args): the digest is read as a value that tells
\* apart any two (salt, token_data) pairs and that no client can make up.
gen_salted_token(salt, args) == [salt |-> salt, token_data |-> ConcatAll(args)]

\* what the URLs of the requests are drawn from: the session of the model and
\* an id with no row, two peppers, the players and an id with no row
SessionIdInputs == {SessionId, 12}
PepperInputs == { <<"a">>, <<"2", "a">> }
PlayerIdInputs == (1..MaxPlayers) \cup {28}
\* the derivations for the URLs the requests are drawn from, worked out once
session_tokens ==
    [salt \in {"sessman", "session"}, session_id \in SessionIdInputs,
     pepper \in PepperInputs |->
        gen_salted_token(salt, <<str(session_id), pepper>>)]

player_tokens ==
    [session_id \in SessionIdInputs, player_id \in PlayerIdInputs,
     pepper \in PepperInputs |->
        gen_salted_token("player", <<str(session_id), pepper, str(player_id)>>)]

gen_session_mgmt_token(session_id, pepper) ==
    IF <<"sessman", session_id, pepper>> \in DOMAIN session_tokens
    THEN session_tokens["sessman", session_id, pepper]
    ELSE gen_salted_token("sessman", <<str(session_id), pepper>>)

gen_session_inv_token(session_id, pepper) ==
    IF <<"session", session_id, pepper>> \in DOMAIN session_tokens
    THEN session_tokens["session", session_id, pepper]
    ELSE gen_salted_token("session", <<str(session_id), pepper>>)

gen_player_token(session_id, player_id, pepper) ==
    IF <<session_id, player_id, pepper>> \in DOMAIN player_tokens
    THEN player_tokens[session_id, player_id, pepper]
    ELSE gen_salted_token("player", <<str(session_id), pepper, str(player_id)>>)

\* mutant: the management check accepts whatever it is given
check_mgmt_token_Skipped(session_id, pepper, mgmt_token) == TRUE

\* TRUE where the handler goes on, FALSE where it aborts with 403
check_mgmt_token(session_id, pepper, mgmt_token) ==
    mgmt_token = gen_session_mgmt_token(session_id, pepper)

check_inv_token(session_id, pepper, inv_token) ==
    inv_token = gen_session_inv_token(session_id, pepper)

check_player_token(session_id, pepper, player_id, player_token) ==
    player_token = gen_player_token(session_id, player_id, pepper)

\* a token that no derivation yields (the tests send 'deadbeef')
deadbeef == [salt |-> "", token_data |-> <<"d", "e", "a", "d", "b", "e", "e", "f">>]

TokenInputs ==
    {deadbeef}
        \cup {gen_session_mgmt_token(s, <<"a">>) : s \in SessionIdInputs}
        \cup {gen_session_inv_token(SessionId, <<"a">>)}
        \cup {gen_player_token(SessionId, p, <<"a">>) : p \in 1..MaxPlayers}

\* the management URL: GET reads, DELETE destroys, POST advances
manage_session_code(method, session_id, pepper, mgmt_token) ==
    IF ~check_mgmt_token(session_id, pepper, mgmt_token) THEN 403
    ELSE IF session_id # SessionId
    THEN (IF method = "DELETE" THEN DestroyCode ELSE 410)
    ELSE CASE method = "GET" -> ReadResponse.code
           [] method = "DELETE" -> DestroyCode
           [] method = "POST" -> AdvanceCode

\* the body of the request is read once the token has been checked
manage_session(method, session_id, pepper, mgmt_token) ==
    IF ~check_mgmt_token(session_id, pepper, mgmt_token) THEN UNCHANGED vars
    ELSE IF session_id # SessionId THEN UNCHANGED vars
    ELSE CASE method = "GET" -> Read
           [] method = "DELETE" -> Destroy
           [] method = "POST" -> \E json \in UntilStartInputs : Advance(json)

session_join_code(session_id, pepper, inv_token) ==
    IF ~check_inv_token(session_id, pepper, inv_token) THEN 403
    ELSE IF session_id # SessionId THEN 500
    ELSE JoinCode

session_join(session_id, pepper, inv_token) ==
    IF ~check_inv_token(session_id, pepper, inv_token) THEN UNCHANGED vars
    ELSE IF session_id # SessionId THEN UNCHANGED vars
    ELSE Join

\* the play URL: GET reads, PUT submits, DELETE leaves
play_code(method, session_id, pepper, player_id, player_token, round_no_supplied) ==
    IF ~check_player_token(session_id, pepper, player_id, player_token) THEN 403
    ELSE IF session_id # SessionId THEN 410
    ELSE CASE method = "GET" -> ReadResponse.code
           [] method = "PUT" -> SubmitCode(player_id, round_no_supplied)
           [] method = "DELETE" -> LeaveCode(player_id)

play(method, session_id, pepper, player_id, player_token) ==
    IF ~check_player_token(session_id, pepper, player_id, player_token) THEN UNCHANGED vars
    ELSE IF session_id # SessionId THEN UNCHANGED vars
    ELSE CASE method = "GET" -> Read
           [] method = "PUT" ->
                \E r \in 0..MaxRound, ws \in WordListInputs : Submit(player_id, r, ws)
           [] method = "DELETE" -> Leave(player_id)

\* the totals come from a view over the word rows: the route writes nothing
stats_code(session_id, pepper, inv_token) ==
    IF ~check_inv_token(session_id, pepper, inv_token) THEN 403 ELSE 200

stats(session_id, pepper, inv_token) == UNCHANGED vars

approve_word_code(session_id, pepper, mgmt_token) ==
    IF ~check_mgmt_token(session_id, pepper, mgmt_token) THEN 403
    ELSE IF session_id # SessionId THEN 410
    ELSE ApproveCode

approve_word(session_id, pepper, mgmt_token) ==
    IF ~check_mgmt_token(session_id, pepper, mgmt_token) THEN UNCHANGED vars
    ELSE IF session_id # SessionId THEN UNCHANGED vars
    ELSE \E ws \in ApproveInputs : Approve(ws)

\* the server as its clients meet it: requests with the tokens they send
RouteNext ==
    \/ \E method \in {"GET", "DELETE", "POST"}, s \in SessionIdInputs,
          pepper \in PepperInputs, t \in TokenInputs :
            manage_session(method, s, pepper, t)
    \/ \E s \in SessionIdInputs, pepper \in PepperInputs, t \in TokenInputs :
            session_join(s, pepper, t)
    \/ \E method \in {"GET", "PUT", "DELETE"}, s \in SessionIdInputs,
          pepper \in PepperInputs, p \in PlayerIdInputs, t \in TokenInputs :
            play(method, s, pepper, p, t)
    \/ \E s \in SessionIdInputs, pepper \in PepperInputs, t \in TokenInputs :
            stats(s, pepper, t)
    \/ \E s \in SessionIdInputs, pepper \in PepperInputs, t \in TokenInputs :
            approve_word(s, pepper, t)
    \/ \E j \in BagToSet(jobs) : WorkerClaim(j)
    \/ \E j \in BagToSet(jobs) : WorkerScore(j)
    \/ \E j \in BagToSet(jobs) : WorkerFinish(j)
    \/ \E j \in BagToSet(jobs) : WorkerFail(j)
    \/ \E o \in TickOffsets : Tick(o)

RouteSpec == Init /\ [][RouteNext]_vars

----------------------------------------------------------------------------
(* One round with three players, for the scoring of its words *)

ScoringPlayerIds == 1..(MaxPlayers + 1)

\* the session after its players have joined and the first round has been
\* started with {"until_start": 0}; it names a dictionary or none
ScoringInit ==
    /\ \E dictionary \in {None, Some("scoring"), Some("missing")} :
          session = Some([round_no |-> 1, round_start |-> Some(0),
                          round_scored |-> None, dictionary |-> dictionary])
    /\ player_seq = MaxPlayers + 1
    /\ players = ScoringPlayerIds
    /\ submissions = EmptyBag
    /\ words = {}
    /\ jobs = EmptyBag
    /\ now = 0
    /\ claims = 0
    /\ requests = EmptyBag
    /\ call = <<>>

\* the word the dictionary lacks, as a manager types it
ScoringApproveInputs == { << <<"A", "L", "g", "e", "I">> >> }

ScoringNext ==
    \/ \E p \in ScoringPlayerIds, r \in 0..MaxRound, ws \in ScoringWordLists :
          Submit(p, r, ws)
    \/ Read
    \/ \E ws \in ApproveInputs \cup ScoringApproveInputs : Approve(ws)
    \/ \E j \in BagToSet(jobs) : WorkerClaim(j)
    \/ \E j \in BagToSet(jobs) : WorkerScore(j)
    \/ \E j \in BagToSet(jobs) : WorkerFinish(j)
    \/ \E j \in BagToSet(jobs) : WorkerFail(j)
    \/ \E o \in TickOffsets : Tick(o)

ScoringSpec == ScoringInit /\ [][ScoringNext]_vars

----------------------------------------------------------------------------
(* The functions of boggle_utils called on their own *)

\* boards: every 2 x 2 board of A and B, one with a Q, the board of the
\* tests, and a row of seventeen cells
SmallBoards ==
    [1..2 -> [1..2 -> {"A", "B"}]] \cup { << <<"Q", "A">>, <<"B", "A">> >> }

LongRowBoard == << [k \in 1..17 |-> "A"] >>

\* words for the small boards: up to MaxWordLen letters of A and B, and
\* words with Q and QU
SmallWords ==
    UNION {[1..n -> {"A", "B"}] : n \in 0..MaxWordLen}
        \cup { <<"Q", "U", "A", "B">>, <<"Q", "A", "B">>, <<"Q", "U", "A">>,
               <<"Q", "U", "A", "B", "A">> }

\* words for the board of the tests, of every length the score table tells
\* apart, on the board and off it
TestBoardWords ==
    { <<"T", "E">>, <<"T", "E", "G">>, <<"Q", "L", "G", "E">>,
      <<"Q", "U", "L", "G", "E">>, <<"T", "L", "E", "G", "I">>,
      <<"T", "E", "T", "E", "G">>, <<"A", "Q", "U", "L", "G", "E">>,
      <<"A", "L", "G", "E", "I", "G">>, <<"D", "G", "I", "E", "I", "H", "L">>,
      <<"D", "G", "I", "E", "I", "H", "L", "F">>,
      <<"D", "G", "I", "E", "I", "H", "L", "F", "L">>,
      <<"D", "G", "I", "E", "I", "H", "L", "F", "L", "O">> }

LongRowWords == {[k \in 1..n |-> "A"] : n \in {15, 16, 17}}

BoardWordInputs ==
    (SmallBoards \X SmallWords)
        \cup ({DEFAULT_TESTING_BOARD} \X TestBoardWords)
        \cup ({LongRowBoard} \X LongRowWords)

\* a call that has not returned yet
Call(fn, args) == [fn |-> fn, args |-> args, result |-> None]

UtilsInputs ==
    {Call("Pathfinder", bw) : bw \in BoardWordInputs}
        \cup {Call("score", bw) : bw \in BoardWordInputs}

\* dice sets: four dice of which two carry a vowel, four dice with three
\* vowel dice, four dice without a vowel, three dice, a single die
DiceInputs ==
    { << <<"A", "B">>, <<"E", "C">>, <<"B", "C">>, <<"D", "F">> >>,
      << <<"A">>, <<"E">>, <<"I", "O">>, <<"B", "C">> >>,
      << <<"B", "C">>, <<"D">>, <<"F", "G">>, <<"H">> >>,
      << <<"A", "B">>, <<"E", "C">>, <<"B", "C">> >>,
      << <<"A", "B">> >> }

SeedInputs == {0, 1, TESTING_SEED}

\* board_dims: left out, or (rows, cols)
DimsInputs == {None, Some(<<2, 2>>), Some(<<1, 4>>), Some(<<3, 1>>)}

\* a call of roll(seed, dice_config=dice_config, board_dims=board_dims) that
\* has not returned yet; attempt counts the draws its loop has thrown away
RollCall(seed, dice_config, board_dims) ==
    [fn |-> "roll", args |-> <<seed, dice_config, board_dims>>, attempt |-> 0,
     result |-> None]

RollInputs ==
    {RollCall(seed, dice, dims) :
        seed \in SeedInputs, dice \in DiceInputs, dims \in DimsInputs}

\* random.Random(seed): the values a generator hands out are fixed by its
\* seed and by how many values it has handed out before.  rng.sample and
\* rng.randrange stand for that: the draw-th pass of the loop of a generator
\* gets a rotation of the dice and a face of each die, computed from seed
\* and draw.
rng_sample(seed, draw, dice_config) ==
    [i \in 1..Len(dice_config) |->
        dice_config[((i - 1 + seed + draw) % Len(dice_config)) + 1]]

rng_randrange(seed, draw, i, n) == (seed + (draw + 1) * i + draw * (i \div 2)) % n

\* mutant: the generator is shared by the calls (the module-level
\* random.sample), so a call draws on from where the other calls have come
rng_position_Shared(calls, i) ==
    LET RECURSIVE drawn(_)
        drawn(k) == IF k = 0 THEN 0
                    ELSE drawn(k - 1) + calls[k].attempt
                           + (IF calls[k].result # None THEN 1 ELSE 0)
    IN drawn(Len(calls))

\* rng = random.Random(seed) inside roll: the position of the generator of
\* call i is the number of draws that call has made
rng_position(calls, i) == calls[i].attempt

\* flat_board of one pass of the loop
flat_board(seed, draw, dice_config) ==
    LET random_dice == rng_sample(seed, draw, dice_config)
    IN [i \in 1..Len(random_dice) |->
          random_dice[i][rng_randrange(seed, draw, i, Len(random_dice[i])) + 1]]

vowel_count(flat) == Cardinality({i \in 1..Len(flat) : flat[i] \in {"A", "E", "I", "O", "U"}})

\* vowel_count / num_dice >= vowel_proportion, with vowel_proportion = 0.375
enough_vowels(flat) == 8 * vowel_count(flat) >= 3 * Len(flat)

\* round(math.sqrt(num_dice)) where num_dice is a perfect square, else None
dice_sq(num_dice) ==
    IF \E r \in 0..num_dice : r * r = num_dice
    THEN Some(CHOOSE r \in 0..num_dice : r * r = num_dice)
    ELSE None

\* (rows, cols) as roll settles them, None where it raises ValueError
roll_dims(num_dice, board_dims) ==
    IF board_dims # None
    THEN (IF Val(board_dims)[1] * Val(board_dims)[2] # num_dice
          THEN None ELSE board_dims)
    ELSE (IF dice_sq(num_dice) = None THEN None
          ELSE Some(<<Val(dice_sq(num_dice)), Val(dice_sq(num_dice))>>))

\* mutant: the flat board is laid out column by column
board_of_ColumnMajor(flat, rows, cols) ==
    [dims |-> <<rows, cols>>,
     board |-> [r \in 1..rows |-> [c \in 1..cols |-> flat[(c - 1) * rows + r]]]]

\* the value roll returns for the flat board it accepted
board_of(flat, rows, cols) ==
    [dims |-> <<rows, cols>>,
     board |-> [r \in 1..rows |-> [c \in 1..cols |-> flat[(r - 1) * cols + c]]]]

\* strings of up to three characters, with Q, U, lower case and an accent
NormaliseChars == {"Q", "U", "A", "q", "u", "e_acute"}

NormaliseInputs ==
    {Call("BoggleWord", <<word>>) :
        word \in UNION {[1..n -> NormaliseChars] : n \in 0..3}}

\* pairs of strings to compare as BoggleWords
CompareWords ==
    { <<"Q", "U", "A">>, <<"Q", "A">>, <<"q", "u", "A">>, <<"A">>, <<"U">>, <<>> }

CompareInputs ==
    {Call("__eq__", <<a, b>>) : a \in CompareWords, b \in CompareWords}

UtilsInit ==
    /\ session = Some([round_no |-> 0, round_start |-> None, round_scored |-> None,
                       dictionary |-> Some("testing")])
    /\ player_seq = 0
    /\ players = {}
    /\ submissions = EmptyBag
    /\ words = {}
    /\ jobs = EmptyBag
    /\ now = 0
    /\ claims = 0
    /\ requests = EmptyBag
    /\ \/ \E c \in UtilsInputs \cup NormaliseInputs : call = <<c>>
       \/ \E c \in CompareInputs : call = <<c>>
       \/ \E c, d \in RollInputs : call = <<c, d>>

Returns(c, result) ==
    /\ Len(call) = 1
    /\ call[1].fn = c.fn
    /\ call = <<c>>
    /\ c.result = None
    /\ call' = <<[c EXCEPT !.result = Some(result)]>>
    /\ UNCHANGED <<session, player_seq, players, submissions, words, jobs, now,
                   claims, requests>>

\* Pathfinder(board)(word)
CallPathfinder ==
    \E c \in UtilsInputs :
        c.fn = "Pathfinder" /\ Returns(c, Pathfinder(c.args[1], c.args[2]))

\* STANDARD_SCORING.score(word, Pathfinder(board))
CallScore ==
    \E c \in UtilsInputs :
        c.fn = "score" /\ Returns(c, base_score(c.args[2], c.args[1]))

\* BoggleWord(word) for a string a player may send
CallBoggleWord ==
    \E c \in NormaliseInputs :
        /\ c.fn = "BoggleWord"
        /\ Returns(c, BoggleWord(c.args[1]))

\* BoggleWord(a) == BoggleWord(b)
CallEq ==
    \E c \in CompareInputs :
        /\ c.fn = "__eq__"
        /\ Returns(c, BoggleWord_eq(BoggleWord(c.args[1]), BoggleWord(c.args[2])))

\* roll: the check of the dimensions, then one pass of the loop
CallRoll(i) ==
    /\ i \in 1..Len(call)
    /\ call[i].fn = "roll"
    /\ call[i].result = None
    /\ UNCHANGED <<session, player_seq, players, submissions, words, jobs, now,
                   claims, requests>>
    /\ LET seed == call[i].args[1]
           dice_config == call[i].args[2]
           dims == roll_dims(Len(dice_config), call[i].args[3])
           flat == flat_board(seed, rng_position(call, i), dice_config)
       IN IF dims = None
          THEN call' = [call EXCEPT ![i].result = Some([raises |-> "ValueError"])]
          ELSE IF enough_vowels(flat)
          THEN call' = [call EXCEPT ![i].result = Some(board_of(flat, Val(dims)[1], Val(dims)[2]))]
          ELSE /\ call[i].attempt < MaxDraws
               /\ call' = [call EXCEPT ![i].attempt = @ + 1]

UtilsNext ==
    \/ CallPathfinder
    \/ CallScore
    \/ CallBoggleWord
    \/ CallEq
    \/ \E i \in 1..2 : CallRoll(i)

UtilsSpec == UtilsInit /\ [][UtilsNext]_vars

----------------------------------------------------------------------------
(* Steps, named for the properties below *)

AdvanceStep == \E json \in UntilStartInputs : Advance(json)
WorkerStep ==
    \E j \in BagToSet(jobs) : WorkerClaim(j) \/ WorkerScore(j) \/ WorkerFinish(j)

RoundScored == Val(session).round_scored

HasSubmission(p) ==
    BagIn([player_id |-> p, round_no |-> Val(session).round_no], submissions)

WordKeys(ws) == {<<w.player_id, w.round_no, w.word>> : w \in ws}

\* a task invocation is between its two commits
Running == \E j \in BagToSet(jobs) : j.pc \in {"claimed", "scored"}

----------------------------------------------------------------------------
(* Properties *)

\* the preconditions of Advance, as the specification lists them
AdvancePre ==
    /\ session # None
    /\ players # {}
    /\ RoundScored # Some(FALSE)

\* C1: Advance succeeds exactly when the session exists, it has a player and
\* round_scored is not false; on success round_scored is unset, round_start is
\* now + countdown and round_no is one higher; a missing session gives 410, any
\* other failed precondition 409, and a failed Advance changes nothing.
C1_AdvanceContract ==
    /\ [](/\ (AdvanceCode = 200 <=> AdvancePre)
          /\ (session = None => AdvanceCode = 410)
          /\ (session # None /\ ~AdvancePre => AdvanceCode = 409))
    /\ [][\A json \in UntilStartInputs : Advance(json) =>
            IF AdvancePre
            THEN /\ session' # None
                 /\ Val(session').round_scored = None
                 /\ Val(session').round_start =
                      Some(now' + (IF json = None THEN DEFAULT_COUNTDOWN_SECONDS
                                   ELSE Val(json)))
                 /\ Val(session').round_no = Val(session).round_no + 1
            ELSE UNCHANGED <<session, players, submissions, words>>]_vars

\* a second round has been advanced to, from a scored first round
C1_Witness ==
    /\ session # None
    /\ Val(session).round_no = 2
    /\ Val(session).round_start = Some(now + DEFAULT_COUNTDOWN_SECONDS)
    /\ RoundScored = None
    /\ \E w \in words : w.round_no = 1 /\ w.score # None

\* C2: the only changes of round_scored are unset -> false and false -> true,
\* made by the scoring task, and the reset to unset made by a successful Advance.
C2_RoundScoredTransitions ==
    [][(session # None /\ session' # None
          /\ Val(session').round_scored # RoundScored)
       => \/ /\ RoundScored = None
             /\ Val(session').round_scored = Some(FALSE)
             /\ WorkerStep
          \/ /\ RoundScored = Some(FALSE)
             /\ Val(session').round_scored = Some(TRUE)
             /\ WorkerStep
          \/ /\ Val(session').round_scored = None
             /\ AdvanceStep /\ AdvanceCode = 200]_vars

\* the second round has been claimed and scored after the first was
C2_Witness ==
    /\ session # None
    /\ Val(session).round_no = 2
    /\ RoundScored = Some(TRUE)
    /\ claims = 1

\* C3: at most one Submission per player and round in every reachable state; a
\* Submit by a player who has one for the current round is answered 409 and
\* changes no Submission and no Word.
C3_UniqueSubmission ==
    /\ [](\A sub \in BagToSet(submissions) : CopiesIn(sub, submissions) <= 1)
    /\ [](session # None =>
            \A p \in Minted, r \in 0..MaxRound :
                HasSubmission(p) => SubmitCode(p, r) = 409)
    /\ [][\A p \in Minted, r \in 0..MaxRound, ws \in WordListInputs :
            (session # None /\ HasSubmission(p) /\ Submit(p, r, ws))
                => UNCHANGED <<submissions, words>>]_vars

\* a player has submitted words in the round that is open for submissions
C3_Witness ==
    /\ session # None
    /\ RoundScored = None
    /\ HasSubmission(1)
    /\ \E w \in words : w.player_id = 1 /\ w.round_no = Val(session).round_no
    /\ SubmitCode(1, Val(session).round_no) = 409

\* the preconditions of Submit, as the specification lists them
SubmitPre(p, r) ==
    /\ session # None
    /\ p \in players
    /\ Val(session).round_start # None
    /\ RoundScored = None
    /\ now <= round_end_of(Val(Val(session).round_start)) + GRACE_PERIOD_SECONDS
    /\ r = Val(session).round_no

\* C4: a Submit creates a Submission and Words only if the session and the
\* player exist, round_start is set, round_scored is unset, now is no later than
\* round_end + grace and the supplied round is the current one; otherwise it is
\* answered 410 (session or player gone) or 409 and creates no row.
C4_SubmitPreconditions ==
    /\ [](\A p \in Minted, r \in 0..MaxRound :
            /\ SubmitCode(p, r) = 201 => SubmitPre(p, r)
            /\ ~SubmitPre(p, r) =>
                 SubmitCode(p, r) = (IF session = None \/ p \notin players
                                     THEN 410 ELSE 409))
    /\ [][(\/ BagCardinality(submissions') > BagCardinality(submissions)
           \/ ~(WordKeys(words') \subseteq WordKeys(words)))
          => \E p \in Minted, r \in 0..MaxRound, ws \in WordListInputs :
                SubmitPre(p, r) /\ Submit(p, r, ws)]_vars

\* a submission was accepted at the very end of the grace period
C4_Witness ==
    /\ session # None
    /\ Val(session).round_start # None
    /\ now = round_end_of(Val(Val(session).round_start)) + GRACE_PERIOD_SECONDS
    /\ RoundScored = None
    /\ \E p, q \in players : HasSubmission(p) /\ ~HasSubmission(q)
    /\ \E w \in words : w.round_no = Val(session).round_no

\* C5 (as claimed): a successful Leave by player p deletes exactly player p with
\* p's Submissions and Words and no other player.
C5_LeaveDeletesLeaver ==
    [][\A p \in Minted :
         (Leave(p) /\ LeaveCode(p) = 204)
            => /\ players' = players \ {p}
               /\ WordKeys(words') = {k \in WordKeys(words) : k[1] # p}]_vars

\* C6 (as claimed): whenever the stored round_scored is true, a read returns
\* SCORED together with the scores.
C6_ScoredIsReturned ==
    (session # None /\ RoundScored = Some(TRUE))
        => (ReadResponse.status = SCORED /\ ReadResponse.scores)

\* every player has submitted in round r, or its grace period is over
ScoringDue(r) ==
    /\ session # None
    /\ Val(session).round_no = r
    /\ Val(session).round_start # None
    /\ \/ all_submitted
       \/ now > round_end_of(Val(Val(session).round_start)) + GRACE_PERIOD_SECONDS

\* a task failed between its two commits: the round is marked as being scored
\* and no invocation is running
Crashed ==
    /\ session # None
    /\ RoundScored = Some(FALSE)
    /\ ~Running

\* C7: once every player has submitted or the grace period is over, and reads
\* keep arriving, then unless the round is advanced, the session destroyed or a
\* task fails, round_scored becomes true and reads return SCORED.
C7_EventuallyScored ==
    \A r \in 1..MaxRound :
        ScoringDue(r) ~>
            \/ session # None /\ RoundScored = Some(TRUE)
                  /\ ReadResponse.status = SCORED
            \/ session = None
            \/ Val(session).round_no # r
            \/ Crashed

\* the last round was scored after its grace period ran out with a player
\* who never submitted
C7_Witness ==
    /\ session # None
    /\ Val(session).round_no = MaxRound
    /\ RoundScored = Some(TRUE)
    /\ ReadResponse.status = SCORED
    /\ ~all_submitted

\* C8: between two Advances at most one task invocation passes the claim step;
\* an invocation that finds round_scored set leaves the session row and every
\* Word row as they are.
C8_SingleClaim ==
    /\ [](claims <= 1)
    /\ [][\A j \in BagToSet(jobs) :
            (session # None /\ RoundScored # None /\ WorkerClaim(j))
                => UNCHANGED <<session, words>> /\ jobs' = jobs (-) SetToBag({j})]_vars

\* two invocations were queued for a round, one has claimed it and the other
\* has come and gone
C8_Witness ==
    /\ session # None
    /\ claims = 1
    /\ RoundScored = Some(FALSE)
    /\ BagCardinality(jobs) = 1
    /\ Running
    /\ words # {}

\* C9 (as claimed): a further invocation of the task for a round leaves the
\* Word rows that were already scored exactly as they were.
C9_RescoringKeepsWords ==
    [][\A j \in BagToSet(jobs) :
         WorkerFinish(j) => \A w \in words : w.score # None => w \in words']_vars

\* C10 (as claimed): after a task failed between its commits round_scored stays
\* false, no read dispatches a scoring task and reads return SCORING.
C10_CrashedReadsScoring ==
    Crashed => (~ReadResponse.dispatch /\ ReadResponse.status = SCORING)

\* C11: round_no never decreases and changes only when an advance request
\* commits, which raises it by exactly one; a request that holds the row lock
\* works on the row as it is stored, so racing advances lose no update.
C11_RoundNoMonotone ==
    /\ [](\A r \in BagToSet(requests) : r.sess = session)
    /\ [][(session # None /\ session' # None
             /\ Val(session').round_no # Val(session).round_no)
            => /\ \E r \in BagToSet(requests) : AdvanceCommit(r)
               /\ Val(session').round_no = Val(session).round_no + 1]_vars
    /\ [][session = None => session' = None]_vars

\* a second advance request holds the row lock after a first one has committed
C11_Witness ==
    /\ session # None
    /\ Val(session).round_no = 1
    /\ \E r \in BagToSet(requests) : RequestCode(r) = 200 /\ Val(r.sess).round_no = 1

\* C12 (as claimed): once the session is destroyed no player, submission or
\* word row remains and every operation on it is answered 410.
C12_GoneAfterDestroy ==
    session = None =>
        /\ players = {} /\ submissions = EmptyBag /\ words = {}
        /\ ReadResponse.code = 410
        /\ AdvanceCode = 410
        /\ JoinCode = 410
        /\ ApproveCode = 410
        /\ \A p \in Minted :
              /\ LeaveCode(p) = 410
              /\ \A r \in 0..MaxRound : SubmitCode(p, r) = 410

\* C13 (as claimed): while the round has not started (round_start unset, or
\* now < round_start) every Submit of a player is answered 409.
C13_NoSubmitBeforeStart ==
    (session # None
       /\ \/ Val(session).round_start = None
          \/ now < Val(Val(session).round_start))
        => \A p \in players, r \in 0..MaxRound : SubmitCode(p, r) = 409

\* C14: while round_scored is false every Leave is answered 409 and deletes
\* no player, submission or word row.
C14_NoLeaveMidScoring ==
    /\ []((session # None /\ RoundScored = Some(FALSE))
            => \A p \in Minted : LeaveCode(p) = 409)
    /\ [][\A p \in Minted :
            (session # None /\ RoundScored = Some(FALSE) /\ Leave(p))
                => UNCHANGED <<players, submissions, words>>]_vars

\* a task is scoring the submitted words of a player who could ask to leave
C14_Witness ==
    /\ session # None
    /\ RoundScored = Some(FALSE)
    /\ Running
    /\ \E p \in players : HasSubmission(p) /\ \E w \in words : w.player_id = p

\* C15: a read of an existing session returns INITIAL exactly when
\* round_start is unset, PRE_START exactly when round_start is set and
\* now < round_start, and PLAYING only when round_start <= now < round_end and
\* some player has no submission for the current round.
C15_StatusTable ==
    session # None =>
        LET st == ReadResponse.status
            rs == Val(session).round_start
        IN /\ st = INITIAL <=> rs = None
           /\ st = PRE_START <=> (rs # None /\ now < Val(rs))
           /\ st = PLAYING =>
                 /\ rs # None
                 /\ Val(rs) <= now /\ now < round_end_of(Val(rs))
                 /\ \E p \in players : ~HasSubmission(p)

\* a round is being played: one player has submitted, another has not
C15_Witness ==
    /\ session # None
    /\ ReadResponse.status = PLAYING
    /\ \E p, q \in players : HasSubmission(p) /\ ~HasSubmission(q)
    /\ Val(Val(session).round_start) = DEFAULT_COUNTDOWN_SECONDS

\* a request whose token is not the one derived from its URL is served
Forged ==
    \E s \in SessionIdInputs, pepper \in PepperInputs, t \in TokenInputs :
        \/ /\ t # gen_session_mgmt_token(s, pepper)
           /\ \/ \E method \in {"GET", "DELETE", "POST"} :
                      manage_session(method, s, pepper, t)
              \/ approve_word(s, pepper, t)
        \/ /\ t # gen_session_inv_token(s, pepper)
           /\ (session_join(s, pepper, t) \/ stats(s, pepper, t))
        \/ \E p \in PlayerIdInputs, method \in {"GET", "PUT", "DELETE"} :
              /\ t # gen_player_token(s, p, pepper)
              /\ play(method, s, pepper, p, t)

\* C16: a request on a management, join, play, approve or stats URL whose
\* token is not the one derived from the URL's session id, pepper and (for
\* play) player id is answered 403 and changes no row, whether or not the
\* session or the player exists.
C16_BadTokenForbidden ==
    /\ ~ENABLED (Forged /\ vars' # vars)
    /\ \A s \in SessionIdInputs, pepper \in PepperInputs, t \in TokenInputs :
          /\ t # gen_session_mgmt_token(s, pepper) =>
                /\ \A method \in {"GET", "DELETE", "POST"} :
                      manage_session_code(method, s, pepper, t) = 403
                /\ approve_word_code(s, pepper, t) = 403
          /\ t # gen_session_inv_token(s, pepper) =>
                /\ session_join_code(s, pepper, t) = 403
                /\ stats_code(s, pepper, t) = 403
          /\ \A p \in PlayerIdInputs :
                t # gen_player_token(s, p, pepper) =>
                    \A method \in {"GET", "PUT", "DELETE"}, r \in 0..MaxRound :
                        play_code(method, s, pepper, p, t, r) = 403

\* a round is being played by two players, one of whom has submitted: the
\* session and its players exist, a request let through would be served
C16_Witness ==
    /\ session # None
    /\ Cardinality(players) = MaxPlayers
    /\ \E p \in players : HasSubmission(p)
    /\ manage_session_code("POST", SessionId, <<"a">>, deadbeef) = 403
    /\ manage_session_code("GET", SessionId, <<"a">>,
                           gen_session_mgmt_token(SessionId, <<"a">>)) = 200
    /\ \E p \in players :
          /\ play_code("PUT", SessionId, <<"a">>, p,
                       gen_player_token(SessionId, p, <<"a">>),
                       Val(session).round_no) = 201
          /\ play_code("PUT", SessionId, <<"a">>, p,
                       gen_session_mgmt_token(SessionId, <<"a">>),
                       Val(session).round_no) = 403

\* the rows an approval of ws is about: those of the current round whose
\* word is one of ws uppercased
Approved(ws, w) ==
    /\ w.round_no = Val(session).round_no
    /\ \E k \in 1..Len(ws) : w.word = upper(ws[k])

EqualityForm(w) == BoggleWord(w.word).qnormd

\* C18: in the rows a scoring task saves for its round, a word is marked
\* duplicate exactly when its compared form (QU read as Q) is among the
\* words of another player in that round; the players who submitted one
\* compared form therefore carry the same flag.
C18_DuplicateAcrossPlayers ==
    [][\A j \in BagToSet(jobs) :
          (WorkerFinish(j) /\ session # None) =>
              \A w \in words' :
                  w.round_no = j.round_no =>
                      /\ w.duplicate \in {Some(TRUE), Some(FALSE)}
                      /\ w.duplicate = Some(TRUE) <=>
                            \E v \in words' :
                                /\ v.round_no = w.round_no
                                /\ v.player_id # w.player_id
                                /\ EqualityForm(v) = EqualityForm(w)
                      /\ \A v \in words' :
                            (v.round_no = w.round_no
                               /\ EqualityForm(v) = EqualityForm(w))
                                => v.duplicate = w.duplicate]_vars

\* a scored round in which one player wrote QLGE and another QULGE, both
\* marked, next to a word nobody else has
C18_Witness ==
    /\ session # None
    /\ RoundScored = Some(TRUE)
    /\ \E w, v, u \in words :
          /\ w.word # v.word
          /\ w.player_id # v.player_id
          /\ EqualityForm(w) = EqualityForm(v)
          /\ w.duplicate = Some(TRUE) /\ v.duplicate = Some(TRUE)
          /\ u.duplicate = Some(FALSE)

\* the rows of the current round that count for the longest word: a raw
\* score other than zero, and valid by the dictionary or by approval
ScoredValid ==
    {w \in retrieve_submitted_words(Val(session).round_no) :
        w.score \notin {None, Some(0)} /\ w.dictionary_valid = Some(TRUE)}

MaxScoredValidLen == max_len(ScoredValid)

\* the players who hold a scored-valid word of the maximum length
LongestHolders == {w.player_id : w \in {x \in ScoredValid : Len(x.word) = MaxScoredValidLen}}

\* C19 (as claimed): without mild scoring, when one player alone holds a
\* scored-valid word of the maximum length, longest_bonus is true on that
\* player's words of that length, whose score is doubled, and false on every
\* word of every other player.
C19_LongestBonusUnique ==
    (session # None /\ RoundScored = Some(TRUE) /\ Cardinality(LongestHolders) = 1)
        => \A order \in QueryOrders(Val(session).round_no) :
             LET by_player == by_player_in(order, Val(session).round_no)
                 out == format_scores(by_player, FALSE)
             IN \A k \in 1..Len(out) :
                  IF out[k].player \in LongestHolders
                  THEN \A w \in by_player[k].words :
                         Len(w.word) = MaxScoredValidLen =>
                             \E e \in out[k].words :
                                 /\ e.word = w.word
                                 /\ e.longest_bonus
                                 /\ e.score = 2 * (IF w.duplicate = Some(TRUE)
                                                   THEN 0 ELSE score_json(w).score)
                  ELSE \A e \in out[k].words : ~e.longest_bonus

\* C20: when two or more players hold a scored-valid word of the maximum
\* length, no word of any player has longest_bonus and every score is the one
\* before the bonus, under either variant and whatever the order in which
\* the players are scanned.
C20_TieNoBonus ==
    (session # None /\ RoundScored = Some(TRUE) /\ Cardinality(LongestHolders) >= 2)
        => \A order \in QueryOrders(Val(session).round_no),
              use_mild_scoring \in BOOLEAN :
             LET by_player == by_player_in(order, Val(session).round_no)
                 out == format_scores(by_player, use_mild_scoring)
             IN \A k \in 1..Len(out) :
                  /\ \A e \in out[k].words : ~e.longest_bonus
                  /\ \A w \in by_player[k].words :
                        \E e \in out[k].words :
                            /\ e.word = w.word
                            /\ e.score = IF ~use_mild_scoring /\ w.duplicate = Some(TRUE)
                                         THEN 0 ELSE score_json(w).score

\* two players hold different words of the maximum length, a third player
\* only a shorter one: the scan meets the tie first or last
C20_Witness ==
    /\ session # None
    /\ RoundScored = Some(TRUE)
    /\ Cardinality(LongestHolders) = 2
    /\ Cardinality(QueryOrders(Val(session).round_no)) = 6
    /\ \E w, v \in ScoredValid :
          /\ w.player_id # v.player_id
          /\ w.word # v.word
          /\ Len(w.word) = MaxScoredValidLen /\ Len(v.word) = MaxScoredValidLen
          /\ w.duplicate = Some(FALSE) /\ v.duplicate = Some(FALSE)

\* C21 (as claimed): under mild scoring the projected score of a duplicate
\* word is its base score, and a word with the longest-word bonus has its
\* score multiplied by 3.
C21_MildScoring ==
    (session # None /\ RoundScored = Some(TRUE))
        => \A order \in QueryOrders(Val(session).round_no) :
             LET by_player == by_player_in(order, Val(session).round_no)
                 out == format_scores(by_player, TRUE)
             IN \A k \in 1..Len(out) :
                  \A w \in by_player[k].words :
                      \E e \in out[k].words :
                          /\ e.word = w.word
                          /\ e.score = score_json(w).score
                                         * (IF e.longest_bonus THEN 3 ELSE 1)

Cells(board) == (0..(Len(board) - 1)) \X (0..(Len(board[1]) - 1))

Neighbours(a, b) ==
    /\ a # b
    /\ a[1] - b[1] \in {-1, 0, 1}
    /\ a[2] - b[2] \in {-1, 0, 1}

\* path traces word on board: a cell per letter holding that letter, no cell
\* twice, consecutive cells next to each other
ValidPath(board, word, path) ==
    /\ Len(path) = Len(word)
    /\ \A k \in 1..Len(path) :
          /\ path[k] \in Cells(board)
          /\ board[path[k][1] + 1][path[k][2] + 1] = word[k]
    /\ \A a, b \in 1..Len(path) : a # b => path[a] # path[b]
    /\ \A k \in 1..(Len(path) - 1) : Neighbours(path[k], path[k + 1])

\* every valid path of word on board
ValidPaths(board, word) ==
    {path \in [1..Len(word) -> Cells(board)] : ValidPath(board, word, path)}

C25_SolverPaths ==
    \A k \in 1..Len(call) :
        (call[k].fn = "Pathfinder" /\ call[k].result # None) =>
            LET board == call[k].args[1]
                word == call[k].args[2]
                yielded == Val(call[k].result)
            IN /\ \A a \in 1..Len(yielded) : ValidPath(board, word, yielded[a])
               /\ \A a, b \in 1..Len(yielded) : a # b => yielded[a] # yielded[b]
               /\ (Len(word) < 3 \/ Len(word) > 16) => yielded = <<>>
               /\ (board \in SmallBoards /\ Len(word) >= 3) =>
                     \A path \in ValidPaths(board, word) :
                         \E a \in 1..Len(yielded) : yielded[a] = path
               /\ (board = LongRowBoard /\ Len(word) = 16) =>
                     \A c \in {0, 1, 15, 16} :
                         \E a \in 1..Len(yielded) : yielded[a][1] = <<0, c>>

\* ABAB on a 2 x 2 board that holds it along several paths, and sixteen
\* letters along the row of seventeen cells
C25_Witness ==
    \E k \in 1..Len(call) :
        /\ call[k].fn = "Pathfinder"
        /\ call[k].result # None
        /\ \/ /\ call[k].args[1] \in SmallBoards
              /\ Len(call[k].args[2]) = 4
              /\ Len(Val(call[k].result)) >= 4
              /\ Cardinality(ValidPaths(call[k].args[1], call[k].args[2]))
                    = Len(Val(call[k].result))

\* C24: in the rows a scoring task saves, a word has dictionary_valid = true
\* exactly when the session names no dictionary, or the dictionary it names
\* is not among the loaded ones, or the display form of the word is in that
\* dictionary.
C24_DictionaryValid ==
    [][\A j \in BagToSet(jobs) :
          (WorkerFinish(j) /\ session # None) =>
              \A w \in words' :
                  w.round_no = j.round_no =>
                      (w.dictionary_valid = Some(TRUE) <=>
                          \/ Val(session).dictionary = None
                          \/ Val(Val(session).dictionary) \notin {"testing", "scoring"}
                          \/ /\ Val(Val(session).dictionary) = "testing"
                             /\ clean_word(w.word) \in TestingDictionary
                          \/ /\ Val(Val(session).dictionary) = "scoring"
                             /\ clean_word(w.word) \in ScoringDictionary)]_vars

\* a round scored against a dictionary that holds one of its words and lacks
\* another
C24_Witness ==
    /\ session # None
    /\ RoundScored = Some(TRUE)
    /\ Val(session).dictionary = Some("scoring")
    /\ \E w, v \in words :
          /\ w.dictionary_valid = Some(TRUE)
          /\ v.dictionary_valid = Some(FALSE)

C27_FirstDrawReturned ==
    \A i \in 1..Len(call) : call[i].fn = "roll" => call[i].attempt = 0

\* C28 (as claimed): normalisation is idempotent for both derived forms:
\* cleaning a display form gives that display form, and replacing QU by Q in
\* an equality form gives that equality form.
C28_NormaliseIdempotent ==
    \A i \in 1..Len(call) :
        (call[i].fn = "BoggleWord" /\ call[i].result # None)
            => LET w == Val(call[i].result)
               IN /\ clean_word(w.word) = w.word
                  /\ ReplaceQU(w.qnormd) = w.qnormd

\* C29 (as claimed): round_scored is only ever set by a worker invocation
\* whose round_no argument is the session's current round_no: a scoring job
\* dispatched for an earlier round that runs after an Advance neither claims
\* nor marks the later round, and so never blocks its Submits.
C29_StaleJobInert ==
    [][\A j \in BagToSet(jobs) :
          (/\ session # None
           /\ j.round_no # Val(session).round_no
           /\ WorkerClaim(j) \/ WorkerScore(j) \/ WorkerFinish(j))
              => session' = session]_vars

\* C30 (as claimed): a read of a started round that finds round_scored unset
\* dispatches a scoring job if and only if now >= round_end or every player
\* has a Submission for the current round; a read that finds round_scored
\* false or true never dispatches.
C30_DispatchCondition ==
    (/\ session # None
     /\ Val(session).round_start # None
     /\ now >= Val(Val(session).round_start))
        => LET round_end == round_end_of(Val(Val(session).round_start))
           IN IF Val(session).round_scored = None
              THEN ReadResponse.dispatch <=> (now >= round_end \/ all_submitted)
              ELSE ~ReadResponse.dispatch

\* C31 (as claimed): every operation that writes the session row or decides
\* a write from it holds the exclusive row lock from its read to its commit:
\* while an advance request holds the lock, the only step that writes a row
\* is the commit of that request.
C31_WritersHoldLock ==
    [][(LockHeld /\ ~(\E r \in BagToSet(requests) : AdvanceCommit(r)))
          => UNCHANGED <<session, player_seq, players, submissions, words>>]_vars

\* C32 (as claimed): while round_scored is false no Submit is accepted and
\* no Leave succeeds, so as long as the session exists the Words a worker
\* has loaded are the Words of its round, and once round_scored is true no
\* Word of the current round is left without a score.
C32_LoadedWordsAreRoundWords ==
    session # None =>
        /\ Val(session).round_scored = Some(FALSE) =>
              \A p \in Minted :
                  /\ LeaveCode(p) # 204
                  /\ \A r \in 0..MaxRound : SubmitCode(p, r) # 201
        /\ \A j \in BagToSet(jobs) :
              j.pc = "scored" =>
                  WordKeys(j.by_player)
                    = WordKeys({w \in words : w.round_no = j.round_no})
        /\ Val(session).round_scored = Some(TRUE) =>
              \A w \in words :
                  w.round_no = Val(session).round_no => w.score # None

\* C33 (as claimed): within one round (no Advance, no Destroy) the status
\* returned by successive reads never moves backwards in the order
\* PRE_START, PLAYING, SCORING, SCORED, whatever Joins, Leaves, Submits and
\* worker steps happen between the reads.
C33_StatusMonotone ==
    [][(/\ session # None /\ session' # None
        /\ Val(session').round_no = Val(session).round_no)
          => ReadResponse'.status >= ReadResponse.status]_vars

\* C34 (as claimed): token derivation binds a token to one tuple: two
\* different (session_id, pepper) pairs never have the same token within one
\* family, nor two different (session_id, pepper, player_id) triples, so a
\* token minted for one session is refused on the URL of another.
C34_TokenBindsTuple ==
    /\ \A s1, s2 \in SessionIdInputs, p1, p2 \in PepperInputs :
          <<s1, p1>> # <<s2, p2>> =>
              /\ gen_session_mgmt_token(s1, p1) # gen_session_mgmt_token(s2, p2)
              /\ gen_session_inv_token(s1, p1) # gen_session_inv_token(s2, p2)
    /\ \A s1, s2 \in SessionIdInputs, p1, p2 \in PepperInputs,
          i1, i2 \in PlayerIdInputs :
          <<s1, p1, i1>> # <<s2, p2, i2>> =>
              gen_player_token(s1, i1, p1) # gen_player_token(s2, i2, p2)
    /\ \A s \in SessionIdInputs \ {SessionId}, p \in PepperInputs :
          /\ manage_session_code("GET", SessionId, <<"2", "a">>,
                                 gen_session_mgmt_token(s, p)) = 403
          /\ manage_session_code("DELETE", SessionId, <<"2", "a">>,
                                 gen_session_mgmt_token(s, p)) = 403

\* C35: a worker invocation for a destroyed session ends without writing:
\* each of its steps taken while the session row is gone is its last one,
\* leaves the Word rows as they are and leaves the session row absent.
C35_WorkerOnDestroyedSession ==
    [][\A j \in BagToSet(jobs) :
          (/\ session = None
           /\ WorkerClaim(j) \/ WorkerScore(j) \/ WorkerFinish(j))
              => /\ jobs' = jobs (-) SetToBag({j})
                 /\ session' = None
                 /\ words' = words]_vars

\* the session was destroyed while a task held the scores it had computed
C35_Witness ==
    /\ session = None
    /\ \E j \in BagToSet(jobs) : j.pc = "scored" /\ j.by_player # {}

\* C36: an accepted Submit stores exactly one Word per distinct equality
\* form among the non-empty strings of the request, each in display form
\* (diacritics stripped, upper case): strings that differ only by case,
\* diacritics or QU versus Q give a single Word.
C36_SubmitCollapses ==
    [][\A p \in ScoringPlayerIds, r \in 0..MaxRound, ws \in ScoringWordLists :
          (/\ submissions' # submissions
           /\ SubmitCode(p, r) = 201
           /\ Submit(p, r, ws)) =>
              LET new == words' \ words
                  sent == {k \in 1..Len(ws) : ws[k] # <<>>}
                  forms == {ReplaceQU(clean_word(ws[k])) : k \in sent}
              IN /\ \A w \in new :
                       /\ w.player_id = p /\ w.round_no = r
                       /\ \E k \in sent : w.word = clean_word(ws[k])
                 /\ \A e \in forms :
                       Cardinality({w \in new : ReplaceQU(w.word) = e}) = 1
                 /\ Cardinality(new) = Cardinality(forms)]_vars

\* a player sent qLge, an accented teg, an empty string, QULGE and TEG and
\* has the two Words QLGE and TEG
C36_Witness ==
    \E p \in players :
        /\ BagIn([player_id |-> p, round_no |-> Val(session).round_no], submissions)
        /\ {w.word : w \in {v \in words : v.player_id = p}}
             = { <<"Q", "L", "G", "E">>, <<"T", "E", "G">> }

\* C37 (as claimed): two BoggleWords compare equal exactly when their
\* equality forms are the same string, and equal words have equal hashes.
C37_EqualIffSameForm ==
    \A i \in 1..Len(call) :
        (call[i].fn = "__eq__" /\ call[i].result # None)
            => LET a == BoggleWord(call[i].args[1])
                   b == BoggleWord(call[i].args[2])
               IN /\ Val(call[i].result) <=> (a.qnormd = b.qnormd)
                  /\ Val(call[i].result) => BoggleWord_hash(a) = BoggleWord_hash(b)

\* C38: a read response holds the board only when round_start is set and
\* now >= round_start, and holds scores only when its status is SCORED; in
\* INITIAL and PRE_START it holds neither.
C38_BoardAndScoresGated ==
    /\ ReadResponse.board =>
          /\ session # None
          /\ Val(session).round_start # None
          /\ now >= Val(Val(session).round_start)
    /\ ReadResponse.scores => ReadResponse.status = SCORED
    /\ ReadResponse.status \in {INITIAL, PRE_START} =>
          ~ReadResponse.board /\ ~ReadResponse.scores

\* a read before the start of a second round, whose first round was scored:
\* the words of the first round have scores, the response has none
C38_Witness ==
    /\ ReadResponse.status = PRE_START
    /\ ~ReadResponse.board /\ ~ReadResponse.scores
    /\ \E w \in words : w.score # None

\* C39: roll returns a board of exactly rows x cols cells, laid out row by
\* row from the draw it accepted, in which every die of the input gives one
\* of its own faces to exactly one cell; it raises an error and returns no
\* board when the dimensions are left out and the number of dice is not a
\* perfect square, or when rows x cols is not the number of dice.
C39_RollShape ==
    \A i \in 1..Len(call) :
        (call[i].fn = "roll" /\ call[i].result # None) =>
            LET dice == call[i].args[2]
                board_dims == call[i].args[3]
                n == Len(dice)
                res == Val(call[i].result)
                bad == IF board_dims = None
                       THEN ~ \E r \in 0..n : r * r = n
                       ELSE Val(board_dims)[1] * Val(board_dims)[2] # n
            IN IF bad THEN "board" \notin DOMAIN res
               ELSE /\ "board" \in DOMAIN res
                    /\ LET rows == res.dims[1]
                           cols == res.dims[2]
                           flat == flat_board(call[i].args[1], call[i].attempt, dice)
                       IN /\ rows * cols = n
                          /\ board_dims # None => res.dims = Val(board_dims)
                          /\ board_dims = None => rows = cols
                          /\ Len(res.board) = rows
                          /\ \A r \in 1..rows : Len(res.board[r]) = cols
                          /\ \A r \in 1..rows, c \in 1..cols :
                                res.board[r][c] = flat[(r - 1) * cols + c]
                          /\ \E die_of \in Permutations(1..n) :
                                \A r \in 1..rows, c \in 1..cols :
                                    \E f \in 1..Len(dice[die_of[(r - 1) * cols + c]]) :
                                        res.board[r][c]
                                          = dice[die_of[(r - 1) * cols + c]][f]

\* a call with four dice and board_dims (1, 4) has returned a row of four
\* letters that are not all the same
C39_Witness ==
    \E i \in 1..Len(call) :
        /\ call[i].fn = "roll"
        /\ call[i].args[3] = Some(<<1, 4>>)
        /\ call[i].result # None
        /\ "board" \in DOMAIN Val(call[i].result)
        /\ Val(call[i].result).board[1][1] # Val(call[i].result).board[1][2]

\* C40: in every reachable state of a session round_start is unset exactly
\* when round_no is 0, and while round_no is 0 round_scored is unset: no
\* scoring task is dispatched or has claimed before the first Advance.
C40_InitialRound ==
    session # None =>
        /\ Val(session).round_start = None <=> Val(session).round_no = 0
        /\ Val(session).round_no = 0 =>
              /\ Val(session).round_scored = None
              /\ ~ReadResponse.dispatch
              /\ jobs = EmptyBag
              /\ claims = 0

\* a session that has all its players and has not been advanced yet
C40_Witness ==
    /\ session # None
    /\ Val(session).round_no = 0
    /\ Val(session).round_start = None
    /\ Cardinality(players) = MaxPlayers
    /\ ReadResponse.status = INITIAL

====
